---- MODULE Spec2Model ----
(***************************************************************************)
(* Webhook -> broadcast channel -> WebSocket fanout.                       *)
(*                                                                         *)
(*   src/src/webhook_handler.py  signature verification and republish      *)
(*   src/src/broadcaster.py      fanout cycle over the connection table    *)
(*   src/src/connect.py          connection-open handler                   *)
(*                                                                         *)
(* The connection table (DynamoDB), the push capability (API Gateway       *)
(* management API) and the broadcast channel (SNS) are the environment:    *)
(* each call the handlers make to them is modelled at its call site, with  *)
(* every outcome the call can have.                                        *)
(***************************************************************************)
EXTENDS Integers, Sequences, FiniteSets, TLC

\* ------------------------------------------------------------------ bounds
\* Connection identifiers are opaque strings; the model names them 1..MaxConn,
\* in the order in which the table's scan returns them.
MaxConn == 3
\* Longest batch of records in one broadcast-trigger event.
MaxBatch == 2

ConnIds == 1..MaxConn

\* scan_kwargs = {} : no ExclusiveStartKey (broadcaster.py line 28).
NoKey == 0

\* The two invocations of the broadcaster handler the model can run.
Cycles == {1, 2}

\* Sns.Message of the k-th record of a batch: the k-th payload of the batch,
\* or "" for a record whose message is absent or empty (both are falsy at
\* broadcaster.py line 48).
Msg(k) == "m" \o ToString(k)
Msgs(k) == {"", Msg(k)}

Batches ==
    UNION {{b \in [1..n -> UNION {Msgs(k) : k \in 1..n}] : \A k \in 1..n : b[k] \in Msgs(k)} :
            n \in 0..MaxBatch}

\* Outcomes of mgmt.post_to_connection: success, a ClientError with its
\* Error.Code, or an exception that is not a ClientError (botocore raises
\* ReadTimeoutError / ConnectTimeoutError for a timed-out push; both derive
\* from BotoCoreError, not from ClientError).
ClientErrorCodes == {"GoneException", "410", "LimitExceededException"}
OtherPushErrors == {"ReadTimeoutError"}
PushOutcomes == {"ok"} \cup ClientErrorCodes \cup OtherPushErrors

\* ------------------------------------------------- webhook: input universes
\* The time at which the provider signs the modelled event.
T0 == 1000
\* A configured STRIPE_TOLERANCE_SECONDS smaller than the default.
SmallTol == 2
\* Most comma-separated items in a Stripe-Signature header.
MaxItems == 3
\* webhook_handler.py line 74: the default of STRIPE_TOLERANCE_SECONDS.
DefaultTolerance == 300

\* dict.get() of a missing key, os.environ without the variable.
None == "<None>"
Unset == "<unset>"

\* Byte strings are written as the text they decode to; InvalidUtf8 is a byte
\* string (0xff) that is not valid UTF-8, LoneSurrogate a str (U+D800) that
\* has no UTF-8 encoding, NonAscii a str with a character outside ASCII.
InvalidUtf8 == "<0xff>"
LoneSurrogate == "<U+D800>"
NonAscii == "<e-acute>"

\* hmac.new(secret, msg, sha256).hexdigest(): lowercase hex, one digest per
\* (secret, msg), modelled as collision free.
Hmac(secret, msg) == "hmac(" \o secret \o "," \o msg \o ")"
\* The same digest written in uppercase hex: a different string.
UpperHex(sig) == "upper:" \o sig

HeaderNames ==
    {"X-Signature", "x-signature", "X-SIGNATURE",
     "Stripe-Signature", "stripe-signature", "STRIPE-SIGNATURE", "X-Event-Type"}

\* A headers mapping; a missing generic header is None, a missing (or empty)
\* Stripe-Signature header is the empty list of items.
Headers(xs, xl, xu, ss, sl, su, et) ==
    ("X-Signature" :> xs) @@ ("x-signature" :> xl) @@ ("X-SIGNATURE" :> xu) @@
    ("Stripe-Signature" :> ss) @@ ("stripe-signature" :> sl) @@
    ("STRIPE-SIGNATURE" :> su) @@ ("X-Event-Type" :> et)

Env(stripe, signing, tol, arn) ==
    [STRIPE_ENDPOINT_SECRET |-> stripe, SIGNING_SECRET |-> signing,
     STRIPE_TOLERANCE_SECONDS |-> tol, BROADCAST_TOPIC_ARN |-> arn]

Event(h, body, b64) == [headers |-> h, body |-> body, isBase64Encoded |-> b64]

\* event["body"] / event["isBase64Encoded"] pairs.
Bodies ==
    ({"a", "b", "", None, "YQ==", LoneSurrogate} \X {FALSE})
        \cup ({"YQ==", "/w==", "YQ", None} \X {TRUE})

\* X-Signature values: the provider's signature of body "a", one under another
\* secret, the uppercase spelling, a non-ASCII string, the empty string.
XSigValues ==
    {Hmac("sk_1", "a"), Hmac("sk_2", "a"), UpperHex(Hmac("sk_1", "a")), NonAscii, ""}

\* One item of a Stripe-Signature header after split(","): <<k, v>> for "k=v",
\* <<text>> for an item without "=".
StripeItem(k, v) == <<k, v>>
TStr == ToString(T0)
StripeItems ==
    {StripeItem("t", TStr), StripeItem("t", "abc"),
     StripeItem("v1", Hmac("whsec_1", TStr \o ".a")),
     StripeItem("v1", Hmac("whsec_1", "abc.a")),
     StripeItem("v1", Hmac("whsec_2", TStr \o ".a")),
     StripeItem("v1", NonAscii)}
StripeHeaders ==
    UNION {[1..n -> StripeItems] : n \in 0..MaxItems}
        \cup {<<<<"junk">>>>,
              <<<<"junk">>, StripeItem("t", TStr),
                StripeItem("v1", Hmac("whsec_1", TStr \o ".a"))>>,
              <<StripeItem("t", TStr), StripeItem("v0", Hmac("whsec_1", TStr \o ".a"))>>,
              <<StripeItem(" t ", TStr), StripeItem(" v1", Hmac("whsec_1", TStr \o ".a"))>>}

ValidStripeHeader ==
    <<StripeItem("t", TStr), StripeItem("v1", Hmac("whsec_1", TStr \o ".a"))>>
WrongStripeHeader ==
    <<StripeItem("t", TStr), StripeItem("v1", Hmac("whsec_2", TStr \o ".a"))>>

\* int(time.time()) when the event is verified.
Nows ==
    {T0, T0 + SmallTol, T0 + SmallTol + 1, T0 - SmallTol - 1,
     T0 + DefaultTolerance, T0 + DefaultTolerance + 1, T0 - DefaultTolerance - 1}
ToleranceSettings == {Unset, ToString(SmallTol), "abc"}

\* Inputs of the handler under the generic scheme or without any scheme, and a
\* few with the Stripe scheme configured as well.
WebhookInputs ==
    {<<Env("", sk, Unset, arn),
       T0,
       Event(Headers(xs, xl, xu, ss, <<>>, <<>>, et), b[1], b[2])>> :
        sk \in {"", "sk_1"}, arn \in {Unset, "arn:aws:sns:topic"},
        xs \in XSigValues \cup {None}, xl \in XSigValues \cup {None},
        xu \in {None, Hmac("sk_1", "a")},
        ss \in {<<>>, ValidStripeHeader}, et \in {None, "charge"}, b \in Bodies}
    \cup
    {<<Env("whsec_1", sk, Unset, arn),
       T0,
       Event(Headers(xs, None, None, ss, <<>>, <<>>, None), b[1], b[2])>> :
        sk \in {"", "sk_1"}, arn \in {Unset, "arn:aws:sns:topic"},
        xs \in {None, Hmac("sk_1", "a")},
        ss \in {<<>>, ValidStripeHeader, WrongStripeHeader}, b \in Bodies}

\* Inputs of the handler with the Stripe scheme configured.
StripeInputs ==
    {<<Env("whsec_1", "", tol, "arn:aws:sns:topic"),
       t,
       Event(Headers(None, None, None, hs[1], hs[2], hs[3], None), b[1], b[2])>> :
        tol \in ToleranceSettings, t \in Nows,
        hs \in {<<h, <<>>, <<>>>> : h \in StripeHeaders}
                \cup {<<<<>>, ValidStripeHeader, <<>>>>,
                      <<<<>>, <<>>, ValidStripeHeader>>,
                      <<WrongStripeHeader, ValidStripeHeader, <<>>>>},
        b \in {<<"a", FALSE>>, <<"b", FALSE>>, <<"YQ==", TRUE>>, <<"/w==", TRUE>>}}

VARIABLES
    registry,   \* the connection table: the set of connectionId keys it holds
    reg0,       \* history: the table when the modelled run started
    fan,        \* fan[c]: the state of invocation c of the broadcaster handler
    wenv,       \* os.environ of the webhook handler
    now,        \* int(time.time()) during the webhook invocation
    wevent,     \* the event the webhook handler is invoked with
    wpc,        \* "idle", "ready" (invoked), "published" (sns.publish returned),
                \* "done" (returned), "crashed" (raised)
    wresp,      \* the response the webhook handler returned
    wverdict,   \* history: what _verify_signature returned or raised
    wfault,     \* history: str() of the exception raised inside the handler, or ""
    topic,      \* the messages published to the broadcast topic, in order
    opens,      \* history: the invocations of the connect handler, in order
    benv        \* os.environ of the broadcaster handler

wvars == <<wenv, now, wevent, wpc, wresp, wverdict, wfault, topic>>
fvars == <<registry, reg0, fan>>
cvars == <<opens>>
vars == <<registry, reg0, fan, wenv, now, wevent, wpc, wresp, wverdict, wfault, topic,
          opens, benv>>

\* ------------------------------------------------------------ pure helpers
\* The result of a call: a value, or the exception it raised (exc is str(exc)).
Ok(v) == [exc |-> "", val |-> v]
Raise(e) == [exc |-> e, val |-> ""]

\* os.environ.get(name, default)
EnvGet(env, name, default) == IF env[name] = Unset THEN default ELSE env[name]

\* os.environ of the broadcaster: the API id and stage of the WebSocket
\* endpoint, and the region.
BEnv(api_id, stage, region) ==
    [WEBSOCKET_API_ID |-> api_id, WEBSOCKET_STAGE |-> stage, AWS_REGION |-> region]
Configured == BEnv("api1", "prod", Unset)
\* The deployments checked: configured, configured with a region, and with
\* the API id, the stage or both missing.
BEnvs ==
    {Configured, BEnv("api1", "prod", "eu-west-1"),
     BEnv(Unset, "prod", Unset), BEnv("api1", Unset, Unset),
     BEnv(Unset, Unset, Unset)}

\* _get_management_client, lines 14-23: os.environ[...] raises KeyError for a
\* missing variable; the client is identified by its endpoint URL.
GetManagementClient(env) ==
    IF env.WEBSOCKET_API_ID = Unset THEN Raise("'WEBSOCKET_API_ID'")
    ELSE IF env.WEBSOCKET_STAGE = Unset THEN Raise("'WEBSOCKET_STAGE'")
    ELSE Ok("https://" \o env.WEBSOCKET_API_ID \o ".execute-api."
              \o EnvGet(env, "AWS_REGION", "us-east-1")
              \o ".amazonaws.com/" \o env.WEBSOCKET_STAGE)

RECURSIVE NonEmpty(_)
\* broadcaster.py lines 45-49: the messages of the records, falsy ones skipped.
NonEmpty(records) ==
    IF records = <<>> THEN <<>>
    ELSE IF Head(records) # ""
         THEN <<Head(records)>> \o NonEmpty(Tail(records))
         ELSE NonEmpty(Tail(records))

Last(s) == s[Len(s)]

\* Variant: the earliest message of the batch instead of the latest.
FirstMessage(messages) == messages[1]
\* broadcaster.py line 54: payload = messages[-1]
LatestPayload(messages) == Last(messages)

RECURSIVE FirstN(_, _, _)
\* The first n keys of the table above key `start`, in scan order.
FirstN(reg, start, n) ==
    LET above == {k \in reg : k > start}
    IN  IF n = 0 \/ above = {} THEN <<>>
        ELSE LET k == CHOOSE x \in above : \A y \in above : x <= y
             IN  <<k>> \o FirstN(reg, k, n - 1)

\* table.scan(**scan_kwargs) (broadcaster.py line 30): one page of at most n
\* items after ExclusiveStartKey, and LastEvaluatedKey. DynamoDB returns
\* LastEvaluatedKey whenever the page ended on its size limit, so it is always
\* present when items remain and may be present when none remain (`more`).
ScanPage(reg, start, n, more) ==
    LET items == FirstN(reg, start, n)
        lastk == IF items = <<>> THEN start ELSE Last(items)
        rest  == {k \in reg : k > lastk}
    IN  [Items |-> items,
         LastEvaluatedKey |->
            IF items # <<>> /\ (rest # {} \/ more) THEN lastk ELSE NoKey]

\* Variants: every ClientError evicts; only the named exception evicts.
IsGoneAnyClientError(code) == code \in ClientErrorCodes
IsGoneOnlyNamed(code) == code = "GoneException"
\* broadcaster.py line 64: code in ("GoneException", "410")
IsGone(code) == code \in {"GoneException", "410"}

\* _list_connections lines 31-34: the connectionId of each item of a page; an
\* item without one is skipped (connectionId is the table's key, so every item
\* has one).
CidsOf(items) == SelectSeq(items, LAMBDA cid : cid # NoKey)

\* ------------------------------------------------------- broadcaster state
NoResp == [statusCode |-> 0, body |-> <<>>]

Idle ==
    [pc |-> "idle", records |-> <<>>, payload |-> "", connection_ids |-> <<>>,
     scan_kwargs |-> NoKey, i |-> 1, delivered |-> 0, stale |-> <<>>, j |-> 1,
     resp |-> NoResp, raised |-> "", fault |-> "", mgmt |-> "",
     scans |-> <<>>, pushes |-> <<>>, deletes |-> <<>>]

\* An invocation about to run on the trigger event whose records carry `batch`.
Invoked(batch) == [Idle EXCEPT !.pc = "start", !.records = batch]

\* ---------------------------------------------------- broadcaster actions
\* broadcaster.py line 51: if not messages
BatchIsEmpty(c) == NonEmpty(fan[c].records) = <<>>

\* Variant: the early return of lines 51-52 is skipped.
BStartNoEarlyReturn(c) ==
    /\ fan[c].pc = "start"
    /\ LET mgmt == GetManagementClient(benv)
       IN  IF mgmt.exc # ""
           THEN fan' = [fan EXCEPT ![c].pc = "crashed", ![c].raised = "config",
                            ![c].fault = mgmt.exc]
           ELSE fan' = [fan EXCEPT ![c].pc = "scan", ![c].mgmt = mgmt.val,
                            ![c].payload = IF BatchIsEmpty(c) THEN ""
                                           ELSE LatestPayload(NonEmpty(fan[c].records))]
    /\ UNCHANGED <<registry, reg0, wvars, cvars, benv>>

\* handler, lines 42-54: build the management client, which raises when the
\* endpoint is not configured (nothing catches it); then collect the
\* messages; an empty batch returns at once, otherwise the payload is the
\* latest message.
BStart(c) ==
    /\ fan[c].pc = "start"
    /\ LET mgmt == GetManagementClient(benv)
       IN  IF mgmt.exc # ""
           THEN fan' = [fan EXCEPT ![c].pc = "crashed", ![c].raised = "config",
                            ![c].fault = mgmt.exc]
           ELSE IF BatchIsEmpty(c)
           THEN fan' = [fan EXCEPT ![c].pc = "done", ![c].mgmt = mgmt.val,
                            ![c].resp = [statusCode |-> 200,
                                         body |-> [delivered |-> 0]]]
           ELSE fan' = [fan EXCEPT ![c].pc = "scan", ![c].mgmt = mgmt.val,
                            ![c].payload = LatestPayload(NonEmpty(fan[c].records))]
    /\ UNCHANGED <<registry, reg0, wvars, cvars, benv>>

\* Variant: the cursor of the previous request is reused.
NextStartKeyStuck(c, resp) == fan[c].scan_kwargs
\* _list_connections line 37: scan_kwargs["ExclusiveStartKey"] = resp["LastEvaluatedKey"]
NextStartKey(c, resp) == resp.LastEvaluatedKey

\* _list_connections, one turn of the while loop (lines 30-37).
BScan(c) ==
    /\ fan[c].pc = "scan"
    /\ \E n \in 1..MaxConn, more \in BOOLEAN :
         LET resp == ScanPage(registry, fan[c].scan_kwargs, n, more)
         IN  fan' = [fan EXCEPT
                ![c].connection_ids = @ \o CidsOf(resp.Items),
                ![c].scans = Append(@, [start |-> fan[c].scan_kwargs,
                                        Items |-> resp.Items,
                                        LastEvaluatedKey |-> resp.LastEvaluatedKey]),
                ![c].scan_kwargs = IF resp.LastEvaluatedKey = NoKey
                                   THEN @ ELSE NextStartKey(c, resp),
                ![c].pc = IF resp.LastEvaluatedKey = NoKey THEN "push" ELSE "scan"]
    /\ UNCHANGED <<registry, reg0, wvars, cvars, benv>>

\* table.scan raises (line 30): neither _list_connections nor handler catches
\* it, so the invocation ends with the exception.
BScanFail(c) ==
    /\ fan[c].pc = "scan"
    /\ fan' = [fan EXCEPT ![c].pc = "crashed", ![c].raised = "scan"]
    /\ UNCHANGED <<registry, reg0, wvars, cvars, benv>>

\* handler lines 58-68, one turn of the for loop: one post_to_connection and
\* the classification of its outcome. Only ClientError is caught.
BPush(c) ==
    /\ fan[c].pc = "push"
    /\ fan[c].i <= Len(fan[c].connection_ids)
    /\ \E o \in PushOutcomes :
         LET cid == fan[c].connection_ids[fan[c].i]
             log == Append(fan[c].pushes,
                           [ConnectionId |-> cid, Data |-> fan[c].payload,
                            outcome |-> o])
         IN  IF o = "ok"
             THEN fan' = [fan EXCEPT ![c].pushes = log, ![c].i = @ + 1,
                              ![c].delivered = @ + 1]
             ELSE IF o \in ClientErrorCodes
             THEN IF IsGone(o)
                  THEN fan' = [fan EXCEPT ![c].pushes = log, ![c].i = @ + 1,
                                   ![c].stale = Append(@, cid)]
                  ELSE fan' = [fan EXCEPT ![c].pushes = log, ![c].i = @ + 1]
             ELSE fan' = [fan EXCEPT ![c].pushes = log,
                              ![c].pc = "crashed", ![c].raised = "push"]
    /\ UNCHANGED <<registry, reg0, wvars, cvars, benv>>

\* Variant: the clean-up loop may begin while connections are still unpushed.
BPushDoneEarly(c) ==
    /\ fan[c].pc = "push"
    /\ fan' = [fan EXCEPT ![c].pc = "evict"]
    /\ UNCHANGED <<registry, reg0, wvars, cvars, benv>>

\* The for loop over the connections is exhausted (line 58 -> line 71).
BPushDone(c) ==
    /\ fan[c].pc = "push"
    /\ fan[c].i > Len(fan[c].connection_ids)
    /\ fan' = [fan EXCEPT ![c].pc = "evict"]
    /\ UNCHANGED <<registry, reg0, wvars, cvars, benv>>

\* Variant: deleting a key that is no longer in the table raises, and the
\* exception is not swallowed.
BEvictStrict(c) ==
    /\ fan[c].pc = "evict"
    /\ fan[c].j <= Len(fan[c].stale)
    /\ \E okd \in BOOLEAN :
         LET cid == fan[c].stale[fan[c].j]
         IN  IF cid \in registry
             THEN /\ fan' = [fan EXCEPT ![c].j = @ + 1,
                                  ![c].deletes = Append(@, [ConnectionId |-> cid,
                                                            ok |-> okd])]
                  /\ registry' = IF okd THEN registry \ {cid} ELSE registry
             ELSE /\ fan' = [fan EXCEPT ![c].pc = "crashed", ![c].raised = "evict"]
                  /\ registry' = registry
    /\ UNCHANGED <<reg0, wvars, cvars, benv>>

\* handler lines 71-75, one turn of the clean-up loop: delete_item either
\* deletes the key (deleting an absent key is no error) or raises, and the
\* exception is swallowed.
BEvict(c) ==
    /\ fan[c].pc = "evict"
    /\ fan[c].j <= Len(fan[c].stale)
    /\ \E okd \in BOOLEAN :
         LET cid == fan[c].stale[fan[c].j]
         IN  /\ fan' = [fan EXCEPT ![c].j = @ + 1,
                             ![c].deletes = Append(@, [ConnectionId |-> cid,
                                                       ok |-> okd])]
             /\ registry' = IF okd THEN registry \ {cid} ELSE registry
    /\ UNCHANGED <<reg0, wvars, cvars, benv>>

\* Variant: staleCleaned counts the deletes that succeeded.
BReturnConfirmed(c) ==
    /\ fan[c].pc = "evict"
    /\ fan[c].j > Len(fan[c].stale)
    /\ fan' = [fan EXCEPT ![c].pc = "done",
                    ![c].resp = [statusCode |-> 200,
                                 body |-> [delivered |-> fan[c].delivered,
                                           staleCleaned |->
                                             Len(SelectSeq(fan[c].deletes,
                                                           LAMBDA d : d.ok))]]]
    /\ UNCHANGED <<registry, reg0, wvars, cvars, benv>>

\* handler line 77.
BReturn(c) ==
    /\ fan[c].pc = "evict"
    /\ fan[c].j > Len(fan[c].stale)
    /\ fan' = [fan EXCEPT ![c].pc = "done",
                    ![c].resp = [statusCode |-> 200,
                                 body |-> [delivered |-> fan[c].delivered,
                                           staleCleaned |-> Len(fan[c].stale)]]]
    /\ UNCHANGED <<registry, reg0, wvars, cvars, benv>>

Broadcaster(c) ==
    \/ BStart(c)
    \/ BScan(c)
    \/ BScanFail(c)
    \/ BPush(c)
    \/ BPushDone(c)
    \/ BEvict(c)
    \/ BReturn(c)


\* ------------------------------------------------------ connect handler
\* The handler was invoked at most this many times, for these ids.
MaxOpens == 2
OpenIds == {1, 2}

\* The events the connect handler is invoked with: a requestContext with a
\* connectionId (NoKey: an empty one), a requestContext without one, and an
\* event without requestContext.
OpenEvents ==
    {[requestContext |-> [connectionId |-> cid]] : cid \in OpenIds \cup {NoKey}}
        \cup {[requestContext |-> [routeKey |-> "$connect"]],
              [routeKey |-> "$connect"]}

\* What table.put_item does: it writes the item, or raises one of these.
PutFaults == {"ProvisionedThroughputExceededException", "EndpointConnectionError"}
PutOutcomes == {"ok"} \cup PutFaults

\* connect.py line 12: event.get("requestContext", {}).get("connectionId");
\* NoKey stands for the None of a missing key.
GetConnectionId(event) ==
    IF "requestContext" \in DOMAIN event
    THEN IF "connectionId" \in DOMAIN event.requestContext
         THEN event.requestContext.connectionId
         ELSE NoKey
    ELSE NoKey

\* Variant: the write is dropped.
PutItemDropped(reg, item) == reg
\* connect.py line 18, table.put_item(Item=item): the table is keyed by
\* connectionId, so the item replaces the one with the same key, if any.
PutItem(reg, item) == reg \cup {item.connectionId}

\* Variant: only the service's error responses are caught.
ConnectCaughtOnlyThrottle(exc) == exc = "ProvisionedThroughputExceededException"
\* connect.py line 20: except Exception
ConnectCaught(exc) == TRUE

\* connect.handler, lines 11-21, on `event` with put_item behaving as `put`.
\* The result holds the response (or the exception that left the handler),
\* what put_item did ("none": it was not called) and the table afterwards.
ConnectHandler(event, reg, put) ==
    LET connection_id == GetConnectionId(event)
        item == [connectionId |-> connection_id]
        out(p, raised, resp, after) ==
            [put |-> p, raised |-> raised, resp |-> resp, after |-> after]
    IN  IF connection_id = NoKey
        THEN out("none", "", [statusCode |-> 400, body |-> "Missing connectionId"], reg)
        ELSE IF put = "ok"
        THEN out("ok", "", [statusCode |-> 200, body |-> [connected |-> TRUE]],
                 PutItem(reg, item))
        ELSE IF ConnectCaught(put)
        THEN out(put, "", [statusCode |-> 500, body |-> [error |-> put]], reg)
        ELSE out(put, put, NoResp, reg)

\* One invocation of the connect handler.
Connect ==
    /\ Len(opens) < MaxOpens
    /\ \E event \in OpenEvents, put \in PutOutcomes :
         LET r == ConnectHandler(event, registry, put)
         IN  /\ registry' = r.after
             /\ opens' = Append(opens,
                    [event |-> event, put |-> r.put, raised |-> r.raised,
                     resp |-> r.resp, before |-> registry, after |-> r.after,
                     started |-> {c \in Cycles : fan[c].pc \notin {"idle", "start"}}])
    /\ UNCHANGED <<reg0, fan, wvars, benv>>


\* ------------------------------------------------------ webhook: helpers
\* Python truthiness of a header value / of a parsed header.
Truthy(v) == v \notin {None, ""}

\* base64.b64decode(body)
B64Decode(body) ==
    IF body = None
    THEN Raise("argument should be a bytes-like object or ASCII string, not 'NoneType'")
    ELSE IF body = "YQ==" THEN Ok("a")
    ELSE IF body = "/w==" THEN Ok(InvalidUtf8)
    ELSE IF body = "" THEN Ok("")
    ELSE Raise("Incorrect padding")

\* str.encode("utf-8")
Utf8Encode(text) ==
    IF text = LoneSurrogate
    THEN Raise("'utf-8' codec can't encode character '\\ud800' in position 0: surrogates not allowed")
    ELSE Ok(text)

\* bytes.decode("utf-8")
Utf8Decode(bytes) ==
    IF bytes = InvalidUtf8
    THEN Raise("'utf-8' codec can't decode byte 0xff in position 0: invalid start byte")
    ELSE Ok(bytes)

\* json.dumps(body) of a body that is not a str (None here).
JsonDumps(body) == IF body = None THEN "null" ELSE body

\* _get_raw_body, lines 15-21.
GetRawBody(event) ==
    IF event.isBase64Encoded
    THEN B64Decode(event.body)
    ELSE IF event.body # None
         THEN Utf8Encode(event.body)
         ELSE Utf8Encode(JsonDumps(event.body))

\* hmac.compare_digest(expected, supplied) on two str: TypeError when one of
\* them holds a non-ASCII character (expected is hex, so only supplied can).
CompareDigest(expected, supplied) ==
    IF supplied = NonAscii
    THEN Raise("comparing strings with non-ASCII characters is not supported")
    ELSE Ok(expected = supplied)

\* int(s): the decimal numerals of the model; anything else is a ValueError.
Numerals == {T0, SmallTol, DefaultTolerance}
IsInt(str) == \E n \in Numerals : ToString(n) = str
IntOf(str) == CHOOSE n \in Numerals : ToString(n) = str

\* str.strip() of a header key.
Strip(k) == IF k = " t " THEN "t" ELSE IF k = " v1" THEN "v1" ELSE k

RECURSIVE Parts(_, _)
\* _verify_stripe_signature lines 51-57, parts.get(key): the values of the
\* items "k=v" whose stripped key is `key`, in header order.
Parts(items, key) ==
    IF items = <<>> THEN <<>>
    ELSE LET it == Head(items)
         IN  IF Len(it) = 2 /\ Strip(it[1]) = key
             THEN <<it[2]>> \o Parts(Tail(items), key)
             ELSE Parts(Tail(items), key)

RECURSIVE AnyMatch(_, _)
\* line 69: any(hmac.compare_digest(computed, s) for s in signatures), which
\* stops at the first match and raises at a signature it cannot compare.
AnyMatch(computed, signatures) ==
    IF signatures = <<>> THEN Ok(FALSE)
    ELSE LET r == CompareDigest(computed, Head(signatures))
         IN  IF r.exc # "" THEN r
             ELSE IF r.val THEN Ok(TRUE)
             ELSE AnyMatch(computed, Tail(signatures))

Verdict(ok, reason) == Ok([ok |-> ok, reason |-> reason])

\* line 81: abs(int(time.time()) - t_int) > tolerance
OutsideTolerance(delta, tolerance) == delta > tolerance

Abs(x) == IF x < 0 THEN -x ELSE x

\* Variant: only the timestamp is required of the header.
HeaderInvalidNoTimestamp(timestamps, signatures) == timestamps = <<>>
\* _verify_stripe_signature line 61: if not timestamps or not signatures
HeaderInvalid(timestamps, signatures) == timestamps = <<>> \/ signatures = <<>>

\* _verify_stripe_signature, lines 45-84.
VerifyStripeSignature(raw_body, headers, endpoint_secret, env, t) ==
    LET sig_header == IF headers["Stripe-Signature"] # <<>>
                      THEN headers["Stripe-Signature"]
                      ELSE headers["stripe-signature"]
        timestamps == Parts(sig_header, "t")
        signatures == Parts(sig_header, "v1")
    IN  IF sig_header = <<>> THEN Verdict(FALSE, "missing Stripe-Signature header")
        ELSE IF HeaderInvalid(timestamps, signatures)
        THEN Verdict(FALSE, "invalid Stripe-Signature header")
        ELSE
        LET timestamp == timestamps[1]
            text == Utf8Decode(raw_body)
        IN  IF text.exc # "" THEN text
            ELSE
            LET computed == Hmac(endpoint_secret, timestamp \o "." \o text.val)
                matched == AnyMatch(computed, signatures)
                tolstr == EnvGet(env, "STRIPE_TOLERANCE_SECONDS", ToString(DefaultTolerance))
                tolerance == IF IsInt(tolstr) THEN IntOf(tolstr) ELSE DefaultTolerance
            IN  IF matched.exc # "" THEN matched
                ELSE IF ~matched.val THEN Verdict(FALSE, "signature mismatch")
                ELSE IF ~IsInt(timestamp) THEN Verdict(FALSE, "invalid timestamp")
                ELSE IF OutsideTolerance(Abs(t - IntOf(timestamp)), tolerance)
                THEN Verdict(FALSE, "timestamp outside tolerance")
                ELSE Verdict(TRUE, "stripe signature valid")

\* Variant: the generic scheme takes precedence over the Stripe scheme.
SchemeGenericFirst(env) ==
    IF env.SIGNING_SECRET # "" THEN "generic"
    ELSE IF env.STRIPE_ENDPOINT_SECRET # "" THEN "stripe" ELSE "none"
\* _verify_signature lines 26-33: which scheme the configuration selects.
Scheme(env) ==
    IF EnvGet(env, "STRIPE_ENDPOINT_SECRET", "") # "" THEN "stripe"
    ELSE IF EnvGet(env, "SIGNING_SECRET", "") # "" THEN "generic"
    ELSE "none"

\* _verify_signature, lines 24-43.
VerifySignature(raw_body, headers, env, t) ==
    IF Scheme(env) = "stripe"
    THEN VerifyStripeSignature(raw_body, headers, env.STRIPE_ENDPOINT_SECRET, env, t)
    ELSE IF Scheme(env) = "none"
    THEN Verdict(TRUE, "signature check skipped (no secret configured)")
    ELSE
    LET supplied_sig == IF Truthy(headers["X-Signature"]) THEN headers["X-Signature"]
                        ELSE IF Truthy(headers["x-signature"]) THEN headers["x-signature"]
                        ELSE ""
        expected == Hmac(env.SIGNING_SECRET, raw_body)
        same == CompareDigest(expected, supplied_sig)
    IN  IF supplied_sig = "" THEN Verdict(FALSE, "missing X-Signature header")
        ELSE IF same.exc # "" THEN same
        ELSE IF same.val THEN Verdict(TRUE, "signature valid")
        ELSE Verdict(FALSE, "signature invalid")

\* Variant: the verdict is not looked at.
NeverRejected(verdict) == FALSE
\* handler line 93: if not ok
Rejected(verdict) == ~verdict.ok

\* Variant: only the missing-configuration KeyError is caught.
CaughtOnlyKeyError(exc) == exc = "'BROADCAST_TOPIC_ARN'"
\* handler line 118: except Exception catches every exception of the try block.
Caught(exc) == TRUE

\* sns.publish(Message=...) (line 102): SNS refuses an empty message; any
\* other publish succeeds or fails as the service decides (pubok).
Publish(message, pubok) ==
    IF message = "" THEN Raise("An error occurred (InvalidParameter) when calling the Publish operation: Invalid parameter: Empty message")
    ELSE IF ~pubok THEN Raise("An error occurred (InternalError) when calling the Publish operation")
    ELSE Ok(message)

Response(status, body) == [statusCode |-> status, body |-> body]

\* handler lines 89-117, the try block: what it returns, or the exception it
\* raises, with the verdict reached and the message published on the way.
TryBlock(event, env, t, pubok) ==
    LET raw == GetRawBody(event)
        none == [exc |-> "", called |-> FALSE, ok |-> FALSE, reason |-> ""]
        out(exc, resp, verdict, msgs) ==
            [exc |-> exc, resp |-> resp, verdict |-> verdict, published |-> msgs]
    IN  IF raw.exc # "" THEN out(raw.exc, NoResp, none, <<>>)
        ELSE
        LET v == VerifySignature(raw.val, event.headers, env, t) IN
        IF v.exc # ""
        THEN out(v.exc, NoResp, [none EXCEPT !.exc = v.exc, !.called = TRUE], <<>>)
        ELSE
        LET verdict == [exc |-> "", called |-> TRUE, ok |-> v.val.ok,
                        reason |-> v.val.reason]
        IN  IF Rejected(v.val)
            THEN out("", Response(401, [message |-> "unauthorized",
                                         reason |-> v.val.reason]), verdict, <<>>)
            ELSE IF env.BROADCAST_TOPIC_ARN = Unset
            THEN out("'BROADCAST_TOPIC_ARN'", NoResp, verdict, <<>>)
            ELSE
            LET text == Utf8Decode(raw.val) IN
            IF text.exc # "" THEN out(text.exc, NoResp, verdict, <<>>)
            ELSE
            LET sent == Publish(text.val, pubok)
                type == IF event.headers["X-Event-Type"] = None
                        THEN "payment_event" ELSE event.headers["X-Event-Type"]
            IN  IF sent.exc # "" THEN out(sent.exc, NoResp, verdict, <<>>)
                ELSE out("", Response(200, [status |-> "ok"]), verdict,
                         <<[Message |-> text.val, type |-> type]>>)

\* handler, lines 87-123, from the invocation up to its first effect outside
\* the handler: a return without publishing (401, or 500 for a caught fault),
\* or the message accepted by the topic at line 102, from where the handler
\* has still to return.
WebhookHandler ==
    /\ wpc = "ready"
    /\ \E pubok \in BOOLEAN :
         LET r == TryBlock(wevent, wenv, now, pubok)
         IN  /\ wverdict' = r.verdict
             /\ wfault' = r.exc
             /\ topic' = topic \o r.published
             /\ IF r.exc = "" /\ r.published # <<>>
                THEN wpc' = "published" /\ wresp' = NoResp
                ELSE IF r.exc = ""
                THEN wpc' = "done" /\ wresp' = r.resp
                ELSE IF Caught(r.exc)
                THEN /\ wpc' = "done"
                     /\ wresp' = Response(500, [message |-> "internal error",
                                                 error |-> r.exc])
                ELSE wpc' = "crashed" /\ wresp' = NoResp
    /\ UNCHANGED <<wenv, now, wevent, fvars, cvars, benv>>

\* handler, lines 113-117: sns.publish has returned and the handler returns
\* 200. The topic may deliver the message before this step.
WebhookReturn ==
    /\ wpc = "published"
    /\ wpc' = "done"
    /\ wresp' = Response(200, [status |-> "ok"])
    /\ UNCHANGED <<wenv, now, wevent, wverdict, wfault, topic, fvars, cvars, benv>>

\* The broadcast topic invokes the broadcaster with the published messages as
\* the records of one trigger event.
Trigger ==
    /\ topic # <<>>
    /\ fan[1].pc = "idle"
    /\ fan' = [fan EXCEPT ![1] = Invoked([k \in 1..Len(topic) |-> topic[k].Message])]
    /\ UNCHANGED <<registry, reg0, wvars, cvars, benv>>

NoVerdict == [exc |-> "", called |-> FALSE, ok |-> FALSE, reason |-> ""]

\* The webhook handler invoked on input `in` = <<environment, time, event>>.
WebhookInvoked(in) ==
    /\ wenv = in[1]
    /\ now = in[2]
    /\ wevent = in[3]
    /\ wpc = "ready"
    /\ wresp = NoResp
    /\ wverdict = NoVerdict
    /\ wfault = ""
    /\ topic = <<>>

\* No webhook invocation in this run.
WebhookIdle ==
    /\ wenv = Env("", "", Unset, Unset)
    /\ now = T0
    /\ wevent = Event(Headers(None, None, None, <<>>, <<>>, <<>>, None), "", FALSE)
    /\ wpc = "idle"
    /\ wresp = NoResp
    /\ wverdict = NoVerdict
    /\ wfault = ""
    /\ topic = <<>>

\* ------------------------------------------- one fanout cycle, run alone
\* The table holds n connections, named in scan order.
InitFanout ==
    /\ registry \in {1..n : n \in 0..MaxConn}
    /\ reg0 = registry
    /\ \E batch \in Batches :
         fan = [c \in Cycles |-> IF c = 1 THEN Invoked(batch) ELSE Idle]
    /\ WebhookIdle
    /\ opens = <<>>
    /\ benv \in BEnvs \ {BEnv("api1", "prod", "eu-west-1")}

NextFanout == \E c \in Cycles : Broadcaster(c)

SpecFanout == InitFanout /\ [][NextFanout]_vars

\* ------------------- one webhook event, through the topic, to the fanout
InitWebhook ==
    /\ \E in \in WebhookInputs : WebhookInvoked(in)
    /\ registry \in SUBSET {1}
    /\ reg0 = registry
    /\ fan = [c \in Cycles |-> Idle]
    /\ opens = <<>>
    /\ benv \in {Configured, BEnv("api1", "prod", "eu-west-1")}

NextWebhook ==
    \/ WebhookHandler
    \/ WebhookReturn
    \/ Trigger
    \/ \E c \in Cycles : Broadcaster(c)

SpecWebhook == InitWebhook /\ [][NextWebhook]_vars

\* ------------------------- one webhook event under the Stripe scheme
InitStripe ==
    /\ \E in \in StripeInputs : WebhookInvoked(in)
    /\ registry = {}
    /\ reg0 = registry
    /\ fan = [c \in Cycles |-> Idle]
    /\ opens = <<>>
    /\ benv = Configured

NextStripe == WebhookHandler \/ WebhookReturn

SpecStripe == InitStripe /\ [][NextStripe]_vars

\* ------------- connection-open events around one fanout cycle
InitRegistry ==
    /\ registry \in {{}, {1}}
    /\ reg0 = registry
    /\ fan = [c \in Cycles |-> IF c = 1 THEN Invoked(<<Msg(1)>>) ELSE Idle]
    /\ WebhookIdle
    /\ opens = <<>>
    /\ benv = Configured

NextRegistry ==
    \/ Connect
    \/ \E c \in Cycles : Broadcaster(c)

SpecRegistry == InitRegistry /\ [][NextRegistry]_vars

\* ----------------------------- two fanout cycles that overlap in time
\* The connections that may be registered when the two invocations start.
SharedConns == {1, 2}

InitOverlap ==
    /\ registry \in SUBSET SharedConns
    /\ reg0 = registry
    /\ fan = [c \in Cycles |-> IF c = 1 THEN Invoked(<<Msg(1)>>)
                                ELSE Invoked(<<Msg(1), Msg(2)>>)]
    /\ WebhookIdle
    /\ opens = <<>>
    /\ benv \in BEnvs \ {BEnv("api1", "prod", "eu-west-1")}

NextOverlap == \E c \in Cycles : Broadcaster(c)

SpecOverlap == InitOverlap /\ [][NextOverlap]_vars

\* ------------------------------------------------ observations of a cycle
GoneCodes == {"GoneException", "410"}
TransientCodes == ClientErrorCodes \ GoneCodes

PushIdx(c) == 1..Len(fan[c].pushes)
\* The connections whose push in cycle c ended with an outcome in `outs`.
PushedWith(c, outs) ==
    {fan[c].pushes[k].ConnectionId : k \in {x \in PushIdx(c) : fan[c].pushes[x].outcome \in outs}}
CountWith(c, outs) ==
    Cardinality({k \in PushIdx(c) : fan[c].pushes[k].outcome \in outs})
\* The connections whose eviction delete raised and never succeeded.
DeleteFailed(c) ==
    {fan[c].deletes[k].ConnectionId :
        k \in {x \in 1..Len(fan[c].deletes) : ~fan[c].deletes[x].ok}}
\* The cycle ran to its return with a non-empty batch.
Returned(c) == fan[c].pc = "done" /\ "staleCleaned" \in DOMAIN fan[c].resp.body
\* Every push of the cycle either succeeded or reported gone.
OnlyOkOrGone(c) == \A k \in PushIdx(c) : fan[c].pushes[k].outcome \in {"ok"} \cup GoneCodes

\* C1 (as amended): a cycle that returns, over a registry of N connections of
\* which K report gone and the others succeed, returns delivered = N-K and
\* staleCleaned = K, and leaves in the registry exactly the connections whose
\* push succeeded together with the gone connections whose delete failed.
C1_FanoutCountsAndRegistry ==
    \A c \in Cycles :
        (Returned(c) /\ OnlyOkOrGone(c)) =>
            LET N == Cardinality(reg0)
                K == CountWith(c, GoneCodes)
            IN  /\ fan[c].resp.statusCode = 200
                /\ fan[c].resp.body.delivered = N - K
                /\ fan[c].resp.body.staleCleaned = K
                /\ registry = PushedWith(c, {"ok"}) \cup DeleteFailed(c)
                /\ (DeleteFailed(c) = {} => Cardinality(registry) = N - K)

\* C1 as claimed: the registry afterwards holds exactly the N-K connections
\* whose push succeeded.
C1_Original ==
    \A c \in Cycles :
        (Returned(c) /\ OnlyOkOrGone(c)) =>
            LET N == Cardinality(reg0)
                K == CountWith(c, GoneCodes)
            IN  /\ fan[c].resp.body.delivered = N - K
                /\ fan[c].resp.body.staleCleaned = K
                /\ registry = PushedWith(c, {"ok"})
                /\ Cardinality(registry) = N - K

\* The scenario of the spec: three connections, the second reports gone.
C1_Witness ==
    /\ reg0 = {1, 2, 3}
    /\ Returned(1)
    /\ PushedWith(1, {"ok"}) = {1, 3}
    /\ PushedWith(1, GoneCodes) = {2}
    /\ fan[1].resp.body = [delivered |-> 2, staleCleaned |-> 1]
    /\ registry = {1, 3}

\* C2 as claimed: whatever the outcomes of the pushes, a cycle whose
\* enumeration completed ends by returning the counts, with exactly one push
\* attempt made to every enumerated connection.
C2_NoPushFailureAborts ==
    \A c \in Cycles :
        (fan[c].pc \in {"done", "crashed"} /\ fan[c].raised \notin {"config", "scan"}
            /\ NonEmpty(fan[c].records) # <<>>) =>
            /\ Returned(c)
            /\ \A n \in 1..Len(fan[c].connection_ids) :
                 Cardinality({k \in PushIdx(c) :
                    fan[c].pushes[k].ConnectionId = fan[c].connection_ids[n]}) = 1

\* C3: a cycle removes a connection only if its push in this cycle reported
\* gone; no connection is pushed to twice; a connection whose push succeeded or
\* failed transiently is still registered when the cycle ends, and a transient
\* failure counts in neither delivered nor staleCleaned.
C3_EvictOnlyGone ==
    \A c \in Cycles :
        /\ (fan[c].pc # "idle") => (reg0 \ registry) \subseteq PushedWith(c, GoneCodes)
        /\ \A k \in 1..Len(fan[c].deletes) :
             fan[c].deletes[k].ConnectionId \in PushedWith(c, GoneCodes)
        /\ \A k1, k2 \in PushIdx(c) :
             fan[c].pushes[k1].ConnectionId = fan[c].pushes[k2].ConnectionId => k1 = k2
        /\ fan[c].pc \in {"done", "crashed"} =>
             PushedWith(c, {"ok"} \cup TransientCodes \cup OtherPushErrors) \subseteq registry
        /\ Returned(c) =>
             /\ fan[c].resp.body.delivered = CountWith(c, {"ok"})
             /\ fan[c].resp.body.staleCleaned = CountWith(c, GoneCodes)
             /\ fan[c].resp.body.delivered + fan[c].resp.body.staleCleaned
                    + CountWith(c, TransientCodes) = Len(fan[c].connection_ids)
             /\ fan[c].resp.body.delivered + fan[c].resp.body.staleCleaned
                    <= Len(fan[c].connection_ids)

\* One success, one transient failure and one gone: the transient one stays.
C3_Witness ==
    /\ Returned(1)
    /\ PushedWith(1, {"ok"}) = {1}
    /\ PushedWith(1, TransientCodes) = {2}
    /\ PushedWith(1, GoneCodes) = {3}
    /\ fan[1].resp.body = [delivered |-> 1, staleCleaned |-> 1]
    /\ registry = {1, 2}

\* The last message of the batch, in batch order.
LastMessageOf(records) ==
    LET carrying == {k \in 1..Len(records) : records[k] # ""}
    IN  records[CHOOSE k \in carrying : \A m \in carrying : m <= k]

\* C4: every push of a cycle carries the last message of the batch, and no
\* earlier message of the batch.
C4_LatestWins ==
    \A c \in Cycles :
        \A k \in PushIdx(c) :
            fan[c].pushes[k].Data = LastMessageOf(fan[c].records)

\* A batch of two different messages, all pushes made with the second.
C4_Witness ==
    /\ Len(fan[1].records) >= 2
    /\ fan[1].records[1] = Msg(1)
    /\ Last(fan[1].records) = Msg(2)
    /\ fan[1].pc = "done"
    /\ Len(fan[1].pushes) = MaxConn
    /\ \A k \in PushIdx(1) : fan[1].pushes[k].Data = Msg(2)

RECURSIVE ItemsOf(_)
\* The identifiers of the pages of a scan log, in order.
ItemsOf(scans) ==
    IF scans = <<>> THEN <<>> ELSE Head(scans).Items \o ItemsOf(Tail(scans))

Occurrences(s, x) == Cardinality({k \in 1..Len(s) : s[k] = x})

\* C10: the first page is requested without a cursor and each next page with
\* the cursor the previous page returned; enumeration ends exactly at a page
\* without cursor; every identifier of every page, and so every registered
\* connection, is enumerated once and pushed to once.
C10_FollowsCursors ==
    \A c \in Cycles :
        LET sc == fan[c].scans
        IN  /\ \A k \in 1..Len(sc) :
                 /\ sc[k].start = (IF k = 1 THEN NoKey ELSE sc[k-1].LastEvaluatedKey)
                 /\ k < Len(sc) => sc[k].LastEvaluatedKey # NoKey
            /\ fan[c].connection_ids = ItemsOf(sc)
            /\ fan[c].pc = "scan" => (sc = <<>> \/ Last(sc).LastEvaluatedKey # NoKey)
            /\ (fan[c].pc \in {"push", "evict"} \/ Returned(c)) =>
                 /\ sc # <<>> /\ Last(sc).LastEvaluatedKey = NoKey
                 /\ \A x \in ConnIds :
                      Occurrences(fan[c].connection_ids, x) = (IF x \in reg0 THEN 1 ELSE 0)
            /\ (fan[c].pc = "evict" \/ Returned(c)) /\ fan[c].connection_ids # <<>> =>
                 [k \in PushIdx(c) |-> fan[c].pushes[k].ConnectionId] = fan[c].connection_ids

\* The registry came back in three pages and every connection was pushed to.
C10_Witness ==
    /\ reg0 = ConnIds
    /\ Len(fan[1].scans) >= 3
    /\ fan[1].pc = "done"
    /\ [k \in PushIdx(1) |-> fan[1].pushes[k].ConnectionId] = [k \in 1..MaxConn |-> k]

\* ------------------------------------------- observations of the webhook
\* The verifier returned "accepted" for the event.
Accepted == wverdict.called /\ wverdict.exc = "" /\ wverdict.ok
\* The verifier returned "rejected" for the event.
Refused == wverdict.called /\ wverdict.exc = "" /\ ~wverdict.ok
\* The raw body of the event (defined when decoding it raised nothing).
RawBody == GetRawBody(wevent).val
\* Every push made by any fanout cycle.
AllPushes == UNION {{fan[c].pushes[k] : k \in PushIdx(c)} : c \in Cycles}

\* C5 (as amended): the handler publishes only if the verifier accepted; a
\* rejected event gets 401 with the verifier's reason and nothing published;
\* an accepted one gets exactly one message, the raw body verbatim, and 200,
\* unless a fault follows the acceptance (no topic configured, body not
\* decodable, publish refused), and then nothing is published and the answer
\* is 500. The message is on the topic, and the fanout may run on it, before
\* the handler has returned its 200. Every push of the fanout carries the
\* body of an accepted event.
C5_PublishOnlyAccepted ==
    /\ wpc \notin {"published", "done"} => topic = <<>>
    /\ wpc = "published" =>
         /\ Accepted /\ wfault = ""
         /\ Len(topic) = 1
         /\ topic[1].Message = RawBody
         /\ wresp = NoResp
    /\ wpc = "done" =>
         /\ Refused => /\ wresp = Response(401, [message |-> "unauthorized",
                                                  reason |-> wverdict.reason])
                       /\ topic = <<>>
         /\ wresp.statusCode = 401 => Refused
         /\ (Accepted /\ wfault = "") =>
                /\ Len(topic) = 1
                /\ topic[1].Message = RawBody
                /\ wresp = Response(200, [status |-> "ok"])
         /\ (Accepted /\ wfault # "") => (topic = <<>> /\ wresp.statusCode = 500)
         /\ topic # <<>> => Accepted
         /\ wverdict.called =>
                LET v == VerifySignature(RawBody, wevent.headers, wenv, now)
                IN  /\ wverdict.exc = v.exc
                    /\ v.exc = "" => (wverdict.ok = v.val.ok /\ wverdict.reason = v.val.reason)
    /\ \A p \in AllPushes : Accepted /\ p.Data = RawBody

\* C5 as claimed: the handler publishes if and only if the verifier accepted,
\* and on acceptance publishes exactly one message and returns 200.
C5_Original ==
    wpc = "done" =>
        /\ Accepted <=> topic # <<>>
        /\ Accepted => /\ Len(topic) = 1
                       /\ topic[1].Message = RawBody
                       /\ wresp = Response(200, [status |-> "ok"])
        /\ Refused => (wresp.statusCode = 401 /\ topic = <<>>)
        /\ \A p \in AllPushes : Accepted /\ p.Data = RawBody

\* An accepted event was published and its body pushed to a connection.
C5_Witness ==
    /\ wpc = "done" /\ Accepted
    /\ wenv.SIGNING_SECRET = "sk_1"
    /\ wresp = Response(200, [status |-> "ok"])
    /\ topic = <<[Message |-> "a", type |-> "payment_event"]>>
    /\ \E p \in AllPushes : p.Data = "a" /\ p.outcome = "ok"

WithoutXSignature(h) ==
    [n \in HeaderNames |->
        IF n \in {"X-Signature", "x-signature", "X-SIGNATURE"} THEN None ELSE h[n]]
WithoutStripeSignature(h) ==
    [n \in HeaderNames |->
        IF n \in {"Stripe-Signature", "stripe-signature", "STRIPE-SIGNATURE"}
        THEN <<>> ELSE h[n]]
\* Some header of the event carries a signature the configured secret of that
\* scheme made over this body at T0.
HasValidStripeSignature ==
    \E n \in {"Stripe-Signature", "stripe-signature"} :
        \E k \in 1..Len(wevent.headers[n]) :
            wevent.headers[n][k] =
                StripeItem("v1", Hmac(wenv.STRIPE_ENDPOINT_SECRET, TStr \o "." \o RawBody))
HasValidXSignature ==
    \E n \in {"X-Signature", "x-signature"} :
        wevent.headers[n] = Hmac(wenv.SIGNING_SECRET, RawBody)

\* C6: the configuration alone selects the scheme. With endpointSecret set the
\* verdict is the one the event would get with signingSecret cleared and its
\* X-Signature headers removed, and an event without a valid Stripe signature
\* is not accepted; else with signingSecret set the verdict does not depend on
\* the Stripe-Signature headers and an event without a valid X-Signature is
\* not accepted; else the event is accepted with the "skipped" reason. A
\* verdict always has a reason.
C6_SchemeByConfiguration ==
    (wpc = "done" /\ wverdict.called) =>
        LET v == VerifySignature(RawBody, wevent.headers, wenv, now)
            same(a, b) == a.exc = b.exc /\ (a.exc = "" => a.val = b.val)
        IN  /\ wverdict.exc = v.exc
            /\ v.exc = "" => /\ wverdict.ok = v.val.ok
                             /\ wverdict.reason = v.val.reason
                             /\ v.val.reason # ""
            /\ wenv.STRIPE_ENDPOINT_SECRET # "" =>
                 /\ same(v, VerifySignature(RawBody, WithoutXSignature(wevent.headers),
                                            [wenv EXCEPT !.SIGNING_SECRET = ""], now))
                 /\ ~HasValidStripeSignature => ~Accepted
            /\ (wenv.STRIPE_ENDPOINT_SECRET = "" /\ wenv.SIGNING_SECRET # "") =>
                 /\ same(v, VerifySignature(RawBody, WithoutStripeSignature(wevent.headers),
                                            wenv, now))
                 /\ ~HasValidXSignature => ~Accepted
            /\ (wenv.STRIPE_ENDPOINT_SECRET = "" /\ wenv.SIGNING_SECRET = "") =>
                 /\ Accepted
                 /\ wverdict.reason = "signature check skipped (no secret configured)"

\* Both secrets configured, a valid X-Signature and a Stripe-Signature made
\* with another secret: rejected by the Stripe scheme.
C6_Witness ==
    /\ wpc = "done"
    /\ wenv.STRIPE_ENDPOINT_SECRET = "whsec_1" /\ wenv.SIGNING_SECRET = "sk_1"
    /\ wevent.body = "a" /\ ~wevent.isBase64Encoded
    /\ wevent.headers["X-Signature"] = Hmac("sk_1", "a")
    /\ wevent.headers["Stripe-Signature"] = WrongStripeHeader
    /\ wresp = Response(401, [message |-> "unauthorized", reason |-> "signature mismatch"])

\* The X-Signature value the generic scheme reads.
SuppliedXSignature ==
    IF Truthy(wevent.headers["X-Signature"]) THEN wevent.headers["X-Signature"]
    ELSE IF Truthy(wevent.headers["x-signature"]) THEN wevent.headers["x-signature"]
    ELSE ""

\* C7 as claimed: under the generic scheme an event is accepted iff the
\* supplied X-Signature equals the hex HMAC of the raw body; every other
\* supplied value gets 401 "signature invalid", an absent one 401 "missing
\* X-Signature header".
C7_GenericAcceptsIffMatches ==
    (wpc = "done" /\ wenv.STRIPE_ENDPOINT_SECRET = "" /\ wenv.SIGNING_SECRET # ""
        /\ GetRawBody(wevent).exc = "") =>
        IF SuppliedXSignature = ""
        THEN wresp = Response(401, [message |-> "unauthorized",
                                    reason |-> "missing X-Signature header"])
        ELSE IF SuppliedXSignature = Hmac(wenv.SIGNING_SECRET, RawBody)
        THEN Accepted /\ wverdict.reason = "signature valid"
        ELSE wresp = Response(401, [message |-> "unauthorized",
                                    reason |-> "signature invalid"])

\* The Stripe-Signature header the Stripe scheme reads, its first timestamp,
\* and the configured tolerance.
SuppliedStripeHeader ==
    IF wevent.headers["Stripe-Signature"] # <<>>
    THEN wevent.headers["Stripe-Signature"] ELSE wevent.headers["stripe-signature"]
SuppliedT == Parts(SuppliedStripeHeader, "t")[1]
ConfiguredTolerance ==
    IF wenv.STRIPE_TOLERANCE_SECONDS = ToString(SmallTol) THEN SmallTol
    ELSE DefaultTolerance
SomeV1Matches ==
    \E k \in 1..Len(Parts(SuppliedStripeHeader, "v1")) :
        Parts(SuppliedStripeHeader, "v1")[k] =
            Hmac(wenv.STRIPE_ENDPOINT_SECRET, SuppliedT \o "." \o RawBody)

\* C8 as claimed: under the Stripe scheme a header whose timestamp t and at
\* least one v1 value match the HMAC of "{t}.{rawBody}" is accepted iff
\* |now - t| <= tolerance and is otherwise rejected with "timestamp outside
\* tolerance"; a header none of whose v1 values matches is never accepted.
C8_ReplayDefence ==
    (wpc = "done" /\ wenv.STRIPE_ENDPOINT_SECRET # ""
        /\ GetRawBody(wevent).exc = "" /\ RawBody # InvalidUtf8
        /\ Parts(SuppliedStripeHeader, "t") # <<>>) =>
        /\ (SuppliedT = TStr /\ SomeV1Matches) =>
             IF Abs(now - T0) <= ConfiguredTolerance
             THEN Accepted
             ELSE wresp = Response(401, [message |-> "unauthorized",
                                         reason |-> "timestamp outside tolerance"])
        /\ ~SomeV1Matches => ~Accepted

\* C9: the handler never raises: every fault of the webhook path (decoding
\* the body, verifying, the topic configuration, the publish) ends in a 500
\* response "internal error" with the error text, and an event whose publish
\* failed never gets 200.
C9_FaultsBecome500 ==
    /\ wpc # "crashed"
    /\ wpc = "done" =>
         /\ wresp.statusCode \in {200, 401, 500}
         /\ wfault # "" => /\ wresp = Response(500, [message |-> "internal error",
                                                      error |-> wfault])
                           /\ topic = <<>>
         /\ wresp.statusCode = 500 => (wfault # "" /\ wresp.body.error # "")
         /\ wresp.statusCode = 200 => Len(topic) = 1
         /\ (wevent.isBase64Encoded /\ wevent.body \in {None, "YQ"}) =>
                wresp.statusCode = 500
         /\ (~wevent.isBase64Encoded /\ wevent.body = LoneSurrogate) =>
                wresp.statusCode = 500
         /\ (Accepted /\ wenv.BROADCAST_TOPIC_ARN = Unset) => wresp.statusCode = 500
         /\ (Accepted /\ RawBody \in {InvalidUtf8, ""}) => wresp.statusCode = 500
         /\ (wverdict.called /\ wverdict.exc # "") => wresp.statusCode = 500

\* An accepted event whose publish failed: 500, nothing published.
C9_Witness ==
    /\ wpc = "done" /\ Accepted
    /\ wevent.body = "a"
    /\ wenv.BROADCAST_TOPIC_ARN # Unset
    /\ wfault = "An error occurred (InternalError) when calling the Publish operation"
    /\ wresp.statusCode = 500 /\ wresp.body.message = "internal error"
    /\ topic = <<>>

\* ------------------------------------------------------------ C14
\* C14: a cycle whose registry scan raised (on any page) ends with a 500
\* response that carries the error, and has evicted nothing.
C14_ScanFailureIs500 ==
    \A c \in Cycles :
        fan[c].raised = "scan" =>
            /\ fan[c].resp.statusCode = 500
            /\ fan[c].deletes = <<>>

\* ------------------------------------------------------------ C18
\* The invocation of cycle c is over and its batch had no record, or no
\* record that carries a message.
EndedOnEmptyBatch(c) ==
    fan[c].pc \notin {"idle", "start"} /\ NonEmpty(fan[c].records) = <<>>
\* The endpoint of the push capability is configured.
EndpointConfigured ==
    benv.WEBSOCKET_API_ID # Unset /\ benv.WEBSOCKET_STAGE # Unset

\* C18 (as amended): a cycle invoked on a batch with no record, or with no
\* record that carries a message, has scanned nothing, pushed nothing and
\* deleted nothing, and the registry is as it was. When the push endpoint is
\* configured it ended at once with 200 {"delivered": 0}; when the API id or
\* the stage is missing from the environment it ended, before looking at the
\* batch, with the KeyError of the missing variable and no response.
C18_EmptyBatchIsNoOp ==
    \A c \in Cycles :
        EndedOnEmptyBatch(c) =>
            /\ fan[c].scans = <<>>
            /\ fan[c].pushes = <<>>
            /\ fan[c].deletes = <<>>
            /\ registry = reg0
            /\ IF EndpointConfigured
               THEN /\ fan[c].pc = "done"
                    /\ fan[c].raised = ""
                    /\ fan[c].resp = [statusCode |-> 200, body |-> [delivered |-> 0]]
               ELSE /\ fan[c].pc = "crashed"
                    /\ fan[c].raised = "config"
                    /\ fan[c].fault = IF benv.WEBSOCKET_API_ID = Unset
                                      THEN "'WEBSOCKET_API_ID'"
                                      ELSE "'WEBSOCKET_STAGE'"
                    /\ fan[c].resp = NoResp

\* C18 as claimed: every cycle invoked on an empty batch returns
\* 200 {"delivered": 0}, having scanned, pushed and deleted nothing.
C18_Original ==
    \A c \in Cycles :
        EndedOnEmptyBatch(c) =>
            /\ fan[c].pc = "done"
            /\ fan[c].raised = ""
            /\ fan[c].resp = [statusCode |-> 200, body |-> [delivered |-> 0]]
            /\ fan[c].scans = <<>>
            /\ fan[c].pushes = <<>>
            /\ fan[c].deletes = <<>>
            /\ registry = reg0

\* An invocation on a batch whose only record carries no message has
\* returned 200, over a registry that holds connections.
C18_Witness ==
    /\ fan[1].pc = "done"
    /\ fan[1].records # <<>>
    /\ NonEmpty(fan[1].records) = <<>>
    /\ fan[1].resp.statusCode = 200
    /\ EndpointConfigured
    /\ registry # {}

\* ------------------------------------------------------------ C19
\* C19: staleCleaned is the number of connections whose push reported gone
\* in the cycle, whether their deletes succeeded or not; a delete that raises
\* does not end the cycle: every marked connection still gets its delete, the
\* cycle returns 200 with the counts, and the connection whose delete failed
\* is still registered.
C19_StaleCleanedCountsAttempts ==
    \A c \in Cycles :
        /\ DeleteFailed(c) # {} => fan[c].pc \in {"evict", "done"}
        /\ Returned(c) =>
              /\ fan[c].resp.statusCode = 200
              /\ fan[c].resp.body.staleCleaned = CountWith(c, GoneCodes)
              /\ fan[c].resp.body.delivered = CountWith(c, {"ok"})
              /\ Len(fan[c].deletes) = CountWith(c, GoneCodes)
              /\ {fan[c].deletes[k].ConnectionId : k \in 1..Len(fan[c].deletes)}
                   = PushedWith(c, GoneCodes)
              /\ DeleteFailed(c) \subseteq registry

\* A cycle returned after the delete of its first gone connection raised and
\* the delete of its second one succeeded.
C19_Witness ==
    /\ Returned(1)
    /\ Len(fan[1].deletes) = 2
    /\ ~fan[1].deletes[1].ok
    /\ fan[1].deletes[2].ok
    /\ fan[1].resp.body.staleCleaned = 2
    /\ fan[1].deletes[1].ConnectionId \in registry
    /\ fan[1].deletes[2].ConnectionId \notin registry

\* ------------------------------------------------------------ C20
\* The connections the cycle marked, in the order it marked them.
MarkedOf(pushes) ==
    LET gone == SelectSeq(pushes, LAMBDA p : p.outcome \in GoneCodes)
    IN  [k \in 1..Len(gone) |-> gone[k].ConnectionId]
DeletedOf(deletes) == [k \in 1..Len(deletes) |-> deletes[k].ConnectionId]

\* C20: the phases of a cycle are ordered. A push is made only once the scan
\* has returned its last page, to the connections enumerated by then; a
\* delete is issued only once every enumerated connection has had its push
\* attempt; the deletes go, in order, to the connections marked by the
\* pushes, and a cycle that returns has issued one for each of them.
C20_PhasesInOrder ==
    \A c \in Cycles :
        /\ fan[c].pushes # <<>> =>
              /\ fan[c].scans # <<>>
              /\ Last(fan[c].scans).LastEvaluatedKey = NoKey
              /\ fan[c].connection_ids = CidsOf(ItemsOf(fan[c].scans))
              /\ \A k \in PushIdx(c) :
                    fan[c].pushes[k].ConnectionId = fan[c].connection_ids[k]
        /\ fan[c].deletes # <<>> =>
              /\ Len(fan[c].pushes) = Len(fan[c].connection_ids)
              /\ fan[c].pc \in {"evict", "done"}
        /\ \A k \in 1..Len(fan[c].deletes) :
              /\ k <= Len(MarkedOf(fan[c].pushes))
              /\ fan[c].deletes[k].ConnectionId = MarkedOf(fan[c].pushes)[k]
        /\ Returned(c) => DeletedOf(fan[c].deletes) = MarkedOf(fan[c].pushes)

\* A cycle returned after a scan of two pages, three pushes of which two
\* reported gone, and two deletes.
C20_Witness ==
    /\ Returned(1)
    /\ Len(fan[1].scans) >= 2
    /\ Len(fan[1].pushes) = 3
    /\ Len(fan[1].deletes) = 2

\* ------------------------------------------------------------ C15
\* The Stripe scheme is configured and the verifier was called on the event.
StripeVerified ==
    wpc = "done" /\ Scheme(wenv) = "stripe" /\ wverdict.called
Unauthorized(reason) ==
    Response(401, [message |-> "unauthorized", reason |-> reason])
StripeHeaderHasBoth ==
    /\ Parts(SuppliedStripeHeader, "t") # <<>>
    /\ Parts(SuppliedStripeHeader, "v1") # <<>>

\* C15 (as amended): under the Stripe scheme an event without the signature
\* header is rejected with "missing Stripe-Signature header", and one whose
\* header holds no t item or no v1 item with "invalid Stripe-Signature
\* header", whatever signatures it carries. A t that is present but is not an
\* integer is not found at that point: the event is never accepted, and when
\* the verifier returns its verdict the reason is "invalid timestamp" if some
\* v1 matches the HMAC made with that t and "signature mismatch" if none does.
C15_HeaderValidation ==
    StripeVerified =>
        /\ SuppliedStripeHeader = <<>> =>
              wresp = Unauthorized("missing Stripe-Signature header")
        /\ (SuppliedStripeHeader # <<>> /\ ~StripeHeaderHasBoth) =>
              wresp = Unauthorized("invalid Stripe-Signature header")
        /\ (StripeHeaderHasBoth /\ ~IsInt(SuppliedT)) =>
              /\ ~Accepted
              /\ wresp.statusCode # 200
              /\ wverdict.exc = "" =>
                    wresp = Unauthorized(IF SomeV1Matches THEN "invalid timestamp"
                                         ELSE "signature mismatch")

\* C15 as claimed: a header whose t is missing or is not a timestamp, or
\* that carries no v1, is rejected with "invalid Stripe-Signature header".
C15_Original ==
    StripeVerified =>
        /\ SuppliedStripeHeader = <<>> =>
              wresp = Unauthorized("missing Stripe-Signature header")
        /\ (SuppliedStripeHeader # <<>>
              /\ (~StripeHeaderHasBoth \/ ~IsInt(SuppliedT))) =>
              wresp = Unauthorized("invalid Stripe-Signature header")

\* An event whose t is "abc" and whose v1 is the HMAC of "abc.<body>" was
\* rejected with "invalid timestamp".
C15_Witness ==
    /\ StripeVerified
    /\ StripeHeaderHasBoth
    /\ SuppliedT = "abc"
    /\ SomeV1Matches
    /\ wresp = Unauthorized("invalid timestamp")

\* ------------------------------------------------------------ C16
\* C16: under the Stripe scheme an event whose raw body is not valid UTF-8,
\* with a header that carries t and v1, is answered 401 with the reason
\* "invalid payload encoding".
C16_InvalidEncodingIs401 ==
    (StripeVerified /\ StripeHeaderHasBoth /\ RawBody = InvalidUtf8) =>
        wresp = Unauthorized("invalid payload encoding")

\* ------------------------------------------------------------ C17
\* The signature the configured secret makes over the body of the event.
GoodXSignature == Hmac(wenv.SIGNING_SECRET, RawBody)
\* C17: under the generic scheme an event that carries the correct signature
\* under one spelling of the header name, and nothing under the others, is
\* accepted whichever spelling that is.
C17_HeaderNamesCaseInsensitive ==
    (wpc = "done" /\ Scheme(wenv) = "generic" /\ GetRawBody(wevent).exc = "") =>
        \A n \in {"X-Signature", "x-signature", "X-SIGNATURE"} :
            (/\ wevent.headers[n] = GoodXSignature
             /\ \A o \in {"X-Signature", "x-signature", "X-SIGNATURE"} \ {n} :
                    wevent.headers[o] = None) => Accepted

\* ------------------------------------------------------------ C12
OpenIdx == 1..Len(opens)
\* The invocations of the connect handler that wrote `x` before cycle c ran.
WroteBefore(c, x) ==
    {k \in OpenIdx : /\ opens[k].put = "ok"
                     /\ GetConnectionId(opens[k].event) = x
                     /\ c \notin opens[k].started}
\* Some cycle's delete of `x` succeeded.
Evicted(x) ==
    \E c \in Cycles : \E k \in 1..Len(fan[c].deletes) :
        fan[c].deletes[k].ConnectionId = x /\ fan[c].deletes[k].ok
\* The scan of cycle c has returned its last page.
Enumerated(c) ==
    fan[c].scans # <<>> /\ Last(fan[c].scans).LastEvaluatedKey = NoKey

\* C12: registering is an idempotent upsert. A successful open adds its id
\* to the table and changes nothing when the id is already there; no
\* enumeration lists an id twice; and an id opened once or several times
\* before a cycle ran, and not evicted, is listed exactly once by that cycle
\* and is in the table.
C12_RegisterIdempotent ==
    /\ \A k \in OpenIdx :
          opens[k].put = "ok" =>
            /\ opens[k].after = opens[k].before \cup {GetConnectionId(opens[k].event)}
            /\ GetConnectionId(opens[k].event) \in opens[k].before =>
                  opens[k].after = opens[k].before
    /\ \A c \in Cycles : \A x \in ConnIds \cup OpenIds :
          /\ Occurrences(fan[c].connection_ids, x) <= 1
          /\ (WroteBefore(c, x) # {} /\ ~Evicted(x)) =>
                /\ x \in registry
                /\ Enumerated(c) => Occurrences(fan[c].connection_ids, x) = 1

\* Two opens for the same id succeeded before the cycle ran, and the cycle's
\* completed enumeration lists the id once.
C12_Witness ==
    /\ Len(opens) = 2
    /\ WroteBefore(1, 1) = {1, 2}
    /\ Enumerated(1)
    /\ Occurrences(fan[1].connection_ids, 1) = 1
    /\ registry = {1}

\* ------------------------------------------------------------ C13
\* C13: every invocation of the connect handler returns a response. It is
\* 200 {"connected": true} exactly when put_item wrote the id; 400 "Missing
\* connectionId", with put_item not called and the table unchanged, when the
\* event has no connection id; and 500 with the error text, the table
\* unchanged, when put_item raised.
C13_ConnectResponses ==
    \A k \in OpenIdx :
        LET o == opens[k]
            cid == GetConnectionId(o.event)
        IN  /\ o.raised = ""
            /\ o.resp.statusCode \in {200, 400, 500}
            /\ o.resp.statusCode = 200 <=> o.put = "ok"
            /\ o.resp.statusCode = 200 =>
                  /\ o.resp.body = [connected |-> TRUE]
                  /\ cid # NoKey
                  /\ cid \in o.after
            /\ o.resp.statusCode = 400 <=> cid = NoKey
            /\ cid = NoKey =>
                  /\ o.resp.body = "Missing connectionId"
                  /\ o.put = "none"
                  /\ o.after = o.before
            /\ o.put \in PutFaults =>
                  /\ o.resp.statusCode = 500
                  /\ o.resp.body = [error |-> o.put]
                  /\ o.after = o.before

\* An open whose write failed was answered 500 and left the id out of the
\* table; the next open of the same id was answered 200 and put it in.
C13_Witness ==
    /\ Len(opens) = 2
    /\ opens[1].put = "EndpointConnectionError"
    /\ opens[1].resp.statusCode = 500
    /\ 2 \notin opens[1].after
    /\ GetConnectionId(opens[1].event) = 2
    /\ GetConnectionId(opens[2].event) = 2
    /\ opens[2].resp.statusCode = 200
    /\ 2 \in opens[2].after

\* ------------------------------------------------------------ C11
\* Both of the two cycles returned.
BothReturned == \A c \in Cycles : Returned(c)
\* The connections some cycle's push reported gone.
ReportedGone == UNION {PushedWith(c, GoneCodes) : c \in Cycles}
\* The connections some cycle's delete removed.
EvictedConns == {x \in ConnIds : Evicted(x)}

\* C11 (as amended): two cycles that overlap do not corrupt one another.
\* Each pushes its own payload to the connections of its own enumeration,
\* which are connections that were registered; a cycle ends by an exception
\* only through a missing endpoint configuration or a fault of its own scan
\* or push, never in its clean-up, and
\* a cycle that returns has pushed to every connection it enumerated and
\* reports its own counts; a cycle deletes only connections that reported
\* gone to it, a delete of a connection the other cycle already removed is no
\* error, and at every moment the registry holds exactly the initially
\* registered connections minus those for which some delete succeeded.
C11_OverlappingCycles ==
    /\ \A c \in Cycles :
          /\ \A k \in PushIdx(c) :
                /\ fan[c].pushes[k].ConnectionId = fan[c].connection_ids[k]
                /\ fan[c].pushes[k].Data = LastMessageOf(fan[c].records)
          /\ \A k \in 1..Len(fan[c].connection_ids) :
                fan[c].connection_ids[k] \in reg0
          /\ \A x \in ConnIds : Occurrences(fan[c].connection_ids, x) <= 1
          /\ Enumerated(c) =>
                fan[c].connection_ids = CidsOf(ItemsOf(fan[c].scans))
          /\ fan[c].pc = "crashed" =>
                /\ fan[c].deletes = <<>>
                /\ \/ fan[c].raised = "config" /\ ~EndpointConfigured
                   \/ fan[c].raised = "scan"
                   \/ /\ fan[c].raised = "push"
                      /\ Last(fan[c].pushes).outcome \in OtherPushErrors
          /\ Returned(c) =>
                /\ Len(fan[c].pushes) = Len(fan[c].connection_ids)
                /\ fan[c].resp.body.delivered = CountWith(c, {"ok"})
                /\ fan[c].resp.body.staleCleaned = CountWith(c, GoneCodes)
                /\ DeletedOf(fan[c].deletes) = MarkedOf(fan[c].pushes)
          /\ \A k \in 1..Len(fan[c].deletes) :
                fan[c].deletes[k].ConnectionId \in PushedWith(c, GoneCodes)
    /\ registry = reg0 \ EvictedConns

\* C11 as claimed: once both cycles have returned, the registry holds exactly
\* the initially registered connections that did not report gone.
C11_Original ==
    BothReturned => registry = reg0 \ ReportedGone

\* Both cycles returned; connection 1 reported gone to both and both deleted
\* it; connection 2 reported gone to the first cycle, whose delete of it
\* failed, and was delivered to by the second; it is still registered.
C11_Witness ==
    /\ BothReturned
    /\ reg0 = {1, 2}
    /\ registry = {2}
    /\ \A c \in Cycles : \E k \in 1..Len(fan[c].deletes) :
          fan[c].deletes[k] = [ConnectionId |-> 1, ok |-> TRUE]
    /\ 2 \in DeleteFailed(1)
    /\ 2 \in PushedWith(2, {"ok"})

====
